---- MODULE Spec2Model ----
(***************************************************************************)
(* Interflow / InferFlow: the conversation store (zustand) of               *)
(* src/store/conversationStore.ts, its persistence in localStorage, and     *)
(* the UI handlers that drive it.                                           *)
(*                                                                          *)
(* A JS Map is an ordered map: a sequence of [k, v] entries with unique     *)
(* keys, in insertion order.  A JS array of [key, value] pairs is the same  *)
(* sequence of entries; which of the two a session's tree.nodes is, is kept *)
(* in its "kind" ("Map" or "Array"; "Object" for a parsed JSON "{}").       *)
(***************************************************************************)
EXTENDS Integers, Sequences, FiniteSets, TLC

\* Bounds of the model.
MaxNodes == 3
MaxSessions == 4
MaxOps == 4
MaxSection == 2

VARIABLES
    tree,               \* ConversationState.tree: [nodes: Map, rootIds: array]
    currentSessionId,   \* ConversationState.currentSessionId
    sessions,           \* ConversationState.sessions: Map<string, Session>
    localStorage,       \* window.localStorage: key -> stored value
    storageFails,       \* localStorage.setItem throws (quota exceeded)
    clock,              \* Date.now()
    nextNode,           \* number of node ids generated so far
    nextSession,        \* number of session ids generated so far
    ops,                \* number of user operations so far
    phase,              \* "mount1", "mount2" (the two mount effects), "run"
    exported,           \* the file written by the last export
    inflight,           \* the handleSubmit call awaiting llmService.generate
    lastOp              \* the last operation: [op, arg, threw, events]

vars == <<tree, currentSessionId, sessions, localStorage, storageFails, clock,
          nextNode, nextSession, ops, phase, exported, inflight, lastOp>>

Null == "null"

STORAGE_KEY == "inferflow_conversations"
SESSIONS_KEY == "inferflow_sessions"
CURRENT_SESSION_KEY == "inferflow_current_session"

\* node-${Date.now()}-${random}: the i-th generated node id.
NodeId(i) == "n" \o ToString(i)
\* session-${Date.now()}-${random}: the i-th generated session id.
SessionId(i) == "s" \o ToString(i)

(***************************************************************************)
(* JS Map and array helpers.                                                *)
(***************************************************************************)
Entry(k, v) == [k |-> k, v |-> v]

MapKeys(m) == {m[i].k : i \in DOMAIN m}

MapHas(m, k) == \E i \in DOMAIN m : m[i].k = k

MapGet(m, k) == m[CHOOSE i \in DOMAIN m : m[i].k = k].v

\* Map.prototype.set: an existing key keeps its place, a new key is appended.
MapSet(m, k, v) ==
    IF MapHas(m, k)
    THEN [i \in DOMAIN m |-> IF m[i].k = k THEN Entry(k, v) ELSE m[i]]
    ELSE Append(m, Entry(k, v))

MapDelete(m, k) == SelectSeq(m, LAMBDA e : e.k # k)

\* new Map(arrayOfPairs)
RECURSIVE MapFromPairs(_)
MapFromPairs(pairs) ==
    IF pairs = <<>> THEN <<>>
    ELSE LET front == MapFromPairs(SubSeq(pairs, 1, Len(pairs) - 1))
             last == pairs[Len(pairs)]
         IN MapSet(front, last.k, last.v)

\* Array.prototype.entries(): [index, element] pairs; the index is a number,
\* written here as its decimal text so that it can sit beside string keys.
ArrayEntries(items) == [i \in DOMAIN items |-> Entry(ToString(i - 1), items[i])]

\* A filter that removes nothing.
Without_Nothing(seq, id) == seq

\* array.filter(x => x !== id)
Without(seq, id) == SelectSeq(seq, LAMBDA x : x # id)

SeqToSet(seq) == {seq[i] : i \in DOMAIN seq}

\* A value with the fields of a ConversationNode (as opposed to a [id, node]
\* pair that ended up where a node is expected).
IsNode(v) == "parentId" \in DOMAIN v

initialTree == [nodes |-> <<>>, rootIds |-> <<>>]

\* The store's state plus what its operations read and write outside it;
\* events are the events dispatched on window, each with the active tree and
\* the localStorage its listeners find.
World ==
    [tree |-> tree, currentSessionId |-> currentSessionId, sessions |-> sessions,
     ls |-> localStorage, fails |-> storageFails, nextSession |-> nextSession,
     threw |-> FALSE, events |-> <<>>]

(***************************************************************************)
(* localStorage.                                                            *)
(***************************************************************************)
HasItem(l, key) == key \in DOMAIN l

\* localStorage.setItem inside try { } catch { console.error }: a failing
\* write leaves the store as it was.
SetItem(w, key, val) ==
    IF w.fails THEN w
    ELSE [w EXCEPT !.ls = [x \in (DOMAIN w.ls) \cup {key} |->
                              IF x = key THEN val ELSE w.ls[x]]]

\* removeItem that removes nothing.
RemoveItem_KeepsItem(w, key) == w

RemoveItem(w, key) ==
    [w EXCEPT !.ls = [x \in (DOMAIN w.ls) \ {key} |-> w.ls[x]]]

\* JSON.stringify of a session's tree.nodes: an array is written as it is,
\* a Map has no enumerable properties and is written as {}.
NodesToJSON(nodes) ==
    IF nodes.kind = "Array" THEN [kind |-> "Array", items |-> nodes.items]
    ELSE [kind |-> "Object", items |-> <<>>]

SessionToJSON(s) ==
    [id |-> s.id, name |-> s.name, createdAt |-> s.createdAt,
     updatedAt |-> s.updatedAt,
     tree |-> [nodes |-> NodesToJSON(s.tree.nodes), rootIds |-> s.tree.rootIds]]

\* JSON.stringify(Array.from(newSessions.entries()))
SessionsToJSON(ss) == [i \in DOMAIN ss |-> Entry(ss[i].k, SessionToJSON(ss[i].v))]

(***************************************************************************)
(* Tree Store.  Every operation takes the world w it runs in and the value  *)
(* now of Date.now(), and gives the world it leaves.                        *)
(***************************************************************************)

\* generateNodeName(parentId)
generateNodeName(w, parentId) ==
    IF parentId = Null
    THEN "Question " \o ToString(Len(w.tree.rootIds) + 1)
    ELSE IF MapHas(w.tree.nodes, parentId)
         THEN "Follow-up "
                  \o ToString(Len(MapGet(w.tree.nodes, parentId).childrenIds) + 1)
         ELSE "Node " \o ToString(Len(w.tree.nodes) + 1)

\* saveCurrentSession with the conversion of the nodes Map to an array left
\* out: the session keeps the Map itself.
saveCurrentSession_KeepsMap(w, name, now) ==
    LET sessionId == IF w.currentSessionId # Null THEN w.currentSessionId
                     ELSE SessionId(w.nextSession + 1)
        sessionName == IF name # "" THEN name ELSE "Session " \o ToString(now)
        session ==
            [id |-> sessionId, name |-> sessionName,
             createdAt |-> IF MapHas(w.sessions, sessionId)
                              /\ MapGet(w.sessions, sessionId).createdAt # 0
                           THEN MapGet(w.sessions, sessionId).createdAt ELSE now,
             updatedAt |-> now,
             tree |-> [nodes |-> [kind |-> "Map", items |-> w.tree.nodes],
                       rootIds |-> w.tree.rootIds]]
        newSessions == MapSet(w.sessions, sessionId, session)
        w1 == [w EXCEPT !.currentSessionId = sessionId,
                        !.sessions = newSessions,
                        !.nextSession = IF w.currentSessionId # Null THEN @ ELSE @ + 1]
    IN SetItem(SetItem(w1, SESSIONS_KEY, SessionsToJSON(newSessions)),
               CURRENT_SESSION_KEY, sessionId)

\* saveCurrentSession that stamps createdAt anew on every save.
saveCurrentSession_ResetsCreatedAt(w, name, now) ==
    LET sessionId == IF w.currentSessionId # Null THEN w.currentSessionId
                     ELSE SessionId(w.nextSession + 1)
        sessionName == IF name # "" THEN name ELSE "Session " \o ToString(now)
        session ==
            [id |-> sessionId, name |-> sessionName,
             createdAt |-> now, updatedAt |-> now,
             tree |-> [nodes |-> [kind |-> "Array", items |-> w.tree.nodes],
                       rootIds |-> w.tree.rootIds]]
        newSessions == MapSet(w.sessions, sessionId, session)
        w1 == [w EXCEPT !.currentSessionId = sessionId,
                        !.sessions = newSessions,
                        !.nextSession = IF w.currentSessionId # Null THEN @ ELSE @ + 1]
    IN SetItem(SetItem(w1, SESSIONS_KEY, SessionsToJSON(newSessions)),
               CURRENT_SESSION_KEY, sessionId)

\* saveCurrentSession that stamps every entry of the session map.
saveCurrentSession_StampsAll(w, name, now) ==
    LET sessionId == IF w.currentSessionId # Null THEN w.currentSessionId
                     ELSE SessionId(w.nextSession + 1)
        sessionName == IF name # "" THEN name ELSE "Session " \o ToString(now)
        session ==
            [id |-> sessionId, name |-> sessionName,
             createdAt |-> IF MapHas(w.sessions, sessionId)
                              /\ MapGet(w.sessions, sessionId).createdAt # 0
                           THEN MapGet(w.sessions, sessionId).createdAt ELSE now,
             updatedAt |-> now,
             tree |-> [nodes |-> [kind |-> "Array", items |-> w.tree.nodes],
                       rootIds |-> w.tree.rootIds]]
        stamped == [i \in DOMAIN w.sessions |->
                      Entry(w.sessions[i].k, [w.sessions[i].v EXCEPT !.updatedAt = now])]
        newSessions == MapSet(stamped, sessionId, session)
        w1 == [w EXCEPT !.currentSessionId = sessionId,
                        !.sessions = newSessions,
                        !.nextSession = IF w.currentSessionId # Null THEN @ ELSE @ + 1]
    IN SetItem(SetItem(w1, SESSIONS_KEY, SessionsToJSON(newSessions)),
               CURRENT_SESSION_KEY, sessionId)

\* saveCurrentSession(name); name = "" stands for an absent name.  The value
\* returned is the currentSessionId of the result.
saveCurrentSession(w, name, now) ==
    LET sessionId == IF w.currentSessionId # Null THEN w.currentSessionId
                     ELSE SessionId(w.nextSession + 1)
        sessionName == IF name # "" THEN name ELSE "Session " \o ToString(now)
        \* Convert nodes Map to array for storage
        nodesArray == [kind |-> "Array", items |-> w.tree.nodes]
        session ==
            [id |-> sessionId, name |-> sessionName,
             createdAt |-> IF MapHas(w.sessions, sessionId)
                              /\ MapGet(w.sessions, sessionId).createdAt # 0
                           THEN MapGet(w.sessions, sessionId).createdAt ELSE now,
             updatedAt |-> now,
             tree |-> [nodes |-> nodesArray, rootIds |-> w.tree.rootIds]]
        newSessions == MapSet(w.sessions, sessionId, session)
        w1 == [w EXCEPT !.currentSessionId = sessionId,
                        !.sessions = newSessions,
                        !.nextSession = IF w.currentSessionId # Null THEN @ ELSE @ + 1]
    IN SetItem(SetItem(w1, SESSIONS_KEY, SessionsToJSON(newSessions)),
               CURRENT_SESSION_KEY, sessionId)

\* saveToStorage that saves nothing.
saveToStorage_Skips(w, now) == w

\* saveToStorage(): both branches call saveCurrentSession().
saveToStorage(w, now) == saveCurrentSession(w, "", now)

\* addNode that puts a new root first in rootIds.
addNode_RootFirst(w, node, now) ==
    LET newNodes == MapSet(w.tree.nodes, node.id, node)
        withParent ==
            IF MapHas(newNodes, node.parentId)
            THEN LET parent == MapGet(newNodes, node.parentId)
                 IN MapSet(newNodes, node.parentId,
                           [parent EXCEPT !.childrenIds = Append(@, node.id)])
            ELSE newNodes
        newTree ==
            IF node.parentId # Null
            THEN [nodes |-> withParent, rootIds |-> w.tree.rootIds]
            ELSE [nodes |-> newNodes, rootIds |-> <<node.id>> \o w.tree.rootIds]
    IN saveToStorage([w EXCEPT !.tree = newTree], now)

\* addNode(node)
addNode(w, node, now) ==
    LET newNodes == MapSet(w.tree.nodes, node.id, node)
        withParent ==
            IF MapHas(newNodes, node.parentId)
            THEN LET parent == MapGet(newNodes, node.parentId)
                 IN MapSet(newNodes, node.parentId,
                           [parent EXCEPT !.childrenIds = Append(@, node.id)])
            ELSE newNodes
        newTree ==
            IF node.parentId # Null
            THEN [nodes |-> withParent, rootIds |-> w.tree.rootIds]
            ELSE [nodes |-> newNodes, rootIds |-> Append(w.tree.rootIds, node.id)]
    IN saveToStorage([w EXCEPT !.tree = newTree], now)

\* { ...node, ...updates }
Merge(node, updates) ==
    [f \in (DOMAIN node) \cup (DOMAIN updates) |->
        IF f \in DOMAIN updates THEN updates[f] ELSE node[f]]

\* updateNode that inserts the fields as a node when the id is unknown.
updateNode_Upserts(w, id, updates, now) ==
    LET newTree ==
            IF ~MapHas(w.tree.nodes, id)
            THEN [w.tree EXCEPT !.nodes = MapSet(@, id, updates)]
            ELSE [w.tree EXCEPT
                    !.nodes = MapSet(@, id, Merge(MapGet(w.tree.nodes, id), updates))]
    IN saveToStorage([w EXCEPT !.tree = newTree], now)

\* updateNode(id, updates)
updateNode(w, id, updates, now) ==
    LET newTree ==
            IF ~MapHas(w.tree.nodes, id) THEN w.tree
            ELSE [w.tree EXCEPT
                    !.nodes = MapSet(@, id, Merge(MapGet(w.tree.nodes, id), updates))]
    IN saveToStorage([w EXCEPT !.tree = newTree], now)

\* deleteNode(id).  The updater passed to set() runs on the state the store
\* holds when it is called; the recursive deleteNode calls it makes each set
\* and save the store; and the tree the updater returns, built from the
\* state it was called with, then replaces the store's tree.
RECURSIVE deleteNode(_, _, _)
RECURSIVE deleteChildren(_, _, _)
deleteChildren(w, childrenIds, now) ==
    IF childrenIds = <<>> THEN w
    ELSE deleteChildren(deleteNode(w, Head(childrenIds), now), Tail(childrenIds), now)

deleteNode(w, id, now) ==
    IF ~MapHas(w.tree.nodes, id) THEN saveToStorage(w, now)
    ELSE LET node == MapGet(w.tree.nodes, id)
             newNodes == MapDelete(w.tree.nodes, id)
             \* Remove from parent's childrenIds
             withParent ==
                 IF node.parentId # Null /\ MapHas(newNodes, node.parentId)
                 THEN LET parent == MapGet(newNodes, node.parentId)
                      IN MapSet(newNodes, node.parentId,
                                [parent EXCEPT !.childrenIds = Without(@, id)])
                 ELSE newNodes
             \* Recursively delete children
             inner == deleteChildren(w, node.childrenIds, now)
             newTree == [nodes |-> withParent, rootIds |-> Without(w.tree.rootIds, id)]
         IN saveToStorage([inner EXCEPT !.tree = newTree], now)

\* toggleCollapse(id)
toggleCollapse(w, id, now) ==
    IF MapHas(w.tree.nodes, id)
    THEN updateNode(w, id,
                    [isCollapsed |-> ~MapGet(w.tree.nodes, id).isCollapsed], now)
    ELSE w

\* clearAll()
clearAll(w, now) == saveToStorage([w EXCEPT !.tree = initialTree], now)

\* getNodeChain(nodeId): the ancestors of nodeId, root first.
RECURSIVE getNodeChain(_, _)
getNodeChain(t, nodeId) ==
    IF nodeId = Null \/ ~MapHas(t.nodes, nodeId) THEN <<>>
    ELSE LET node == MapGet(t.nodes, nodeId)
         IN Append(getNodeChain(t, node.parentId), node)

(***************************************************************************)
(* Auto-layout (utils/layout.ts).                                           *)
(***************************************************************************)
NODE_WIDTH == 400
HORIZONTAL_SPACING == 500
VERTICAL_SPACING == 350
startY == 100
startX == 300

\* calculateDepth(nodeId)
RECURSIVE calculateDepth(_, _)
calculateDepth(t, nodeId) ==
    IF ~MapHas(t.nodes, nodeId) THEN 0
    ELSE LET node == MapGet(t.nodes, nodeId)
         IN IF node.parentId = Null THEN 0
            ELSE calculateDepth(t, node.parentId) + 1

\* calculateSimpleLayout that fills every level from its latest node on.
calculateAutoLayout_LatestFirst(t) ==
    LET ids == [i \in DOMAIN t.nodes |-> t.nodes[i].v.id]
        depth(i) == calculateDepth(t, ids[i])
        index(i) == Cardinality({j \in (i + 1)..Len(ids) : depth(j) = depth(i)})
        pos(i) ==
            [x |-> startX + index(i) * (NODE_WIDTH + HORIZONTAL_SPACING)
                          + depth(i) * (NODE_WIDTH + 100),
             y |-> startY + depth(i) * VERTICAL_SPACING]
    IN MapFromPairs([i \in DOMAIN ids |-> Entry(ids[i], pos(i))])

\* calculateSimpleLayout that puts every node of a level at the level's
\* first place.
calculateAutoLayout_Stacked(t) ==
    LET ids == [i \in DOMAIN t.nodes |-> t.nodes[i].v.id]
        depth(i) == calculateDepth(t, ids[i])
        pos(i) ==
            [x |-> startX + depth(i) * (NODE_WIDTH + 100),
             y |-> startY + depth(i) * VERTICAL_SPACING]
    IN MapFromPairs([i \in DOMAIN ids |-> Entry(ids[i], pos(i))])

\* calculateSimpleLayout(tree): the position of every node id, by its depth
\* and its index among the ids of that depth in the Map's order.
calculateAutoLayout(t) ==
    LET ids == [i \in DOMAIN t.nodes |-> t.nodes[i].v.id]
        depth(i) == calculateDepth(t, ids[i])
        index(i) == Cardinality({j \in 1..(i - 1) : depth(j) = depth(i)})
        pos(i) ==
            [x |-> startX + index(i) * (NODE_WIDTH + HORIZONTAL_SPACING)
                          + depth(i) * (NODE_WIDTH + 100),
             y |-> startY + depth(i) * VERTICAL_SPACING]
    IN MapFromPairs([i \in DOMAIN ids |-> Entry(ids[i], pos(i))])

\* window.dispatchEvent(new CustomEvent(type))
DispatchEvent(w, type) ==
    [w EXCEPT !.events = Append(@, [type |-> type, tree |-> w.tree, ls |-> w.ls])]

\* applyAutoLayout that notifies the canvas before it applies the positions.
applyAutoLayout_NotifiesFirst(w, now) ==
    LET positions == calculateAutoLayout(w.tree)
        newNodes ==
            [i \in DOMAIN w.tree.nodes |->
                LET e == w.tree.nodes[i]
                IN IF MapHas(positions, e.k)
                   THEN Entry(e.k, [e.v EXCEPT !.position = MapGet(positions, e.k)])
                   ELSE e]
        notified == DispatchEvent(w, "autoLayoutApplied")
    IN saveToStorage([notified EXCEPT !.tree = [w.tree EXCEPT !.nodes = newNodes]], now)

\* applyAutoLayout(): the positions are set, the tree is saved, and the
\* canvas is notified.
applyAutoLayout(w, now) ==
    LET positions == calculateAutoLayout(w.tree)
        newNodes ==
            [i \in DOMAIN w.tree.nodes |->
                LET e == w.tree.nodes[i]
                IN IF MapHas(positions, e.k)
                   THEN Entry(e.k, [e.v EXCEPT !.position = MapGet(positions, e.k)])
                   ELSE e]
        saved == saveToStorage([w EXCEPT !.tree = [w.tree EXCEPT !.nodes = newNodes]], now)
    IN DispatchEvent(saved, "autoLayoutApplied")

(***************************************************************************)
(* Session Manager.                                                         *)
(***************************************************************************)

\* localStorage.setItem outside any try: a failing write throws to the caller.
SetItemOrThrow(w, key, val) ==
    IF w.fails THEN [w EXCEPT !.threw = TRUE] ELSE SetItem(w, key, val)

\* session.tree.nodes instanceof Map ? new Map(nodes) : new Map(nodes as pairs)
NodesToMap(nodes) ==
    IF nodes.kind = "Map" THEN nodes.items ELSE MapFromPairs(nodes.items)

\* loadSession that makes the session active and leaves the tree on screen.
loadSession_KeepsTree(w, sessionId, now) ==
    IF ~MapHas(w.sessions, sessionId) THEN w
    ELSE LET saved == IF w.currentSessionId # Null /\ Len(w.tree.nodes) > 0
                      THEN saveCurrentSession(w, "", now) ELSE w
             loaded == [saved EXCEPT !.currentSessionId = sessionId]
         IN SetItemOrThrow(loaded, CURRENT_SESSION_KEY, sessionId)

\* loadSession(sessionId)
loadSession(w, sessionId, now) ==
    IF ~MapHas(w.sessions, sessionId) THEN w
    ELSE LET session == MapGet(w.sessions, sessionId)
             \* Save current session before switching
             saved == IF w.currentSessionId # Null /\ Len(w.tree.nodes) > 0
                      THEN saveCurrentSession(w, "", now) ELSE w
             loaded == [saved EXCEPT
                          !.tree = [nodes |-> NodesToMap(session.tree.nodes),
                                    rootIds |-> session.tree.rootIds],
                          !.currentSessionId = sessionId]
         IN SetItemOrThrow(loaded, CURRENT_SESSION_KEY, sessionId)

\* createNewSession that leaves the active tree as it is.
createNewSession_KeepsTree(w, now) ==
    LET saved == IF w.currentSessionId # Null /\ Len(w.tree.nodes) > 0
                 THEN saveCurrentSession(w, "", now) ELSE w
        newSessionId == SessionId(saved.nextSession + 1)
        newSession ==
            [id |-> newSessionId, name |-> "New Session " \o ToString(now),
             createdAt |-> now, updatedAt |-> now,
             tree |-> [nodes |-> [kind |-> "Map", items |-> initialTree.nodes],
                       rootIds |-> initialTree.rootIds]]
        newSessions == MapSet(w.sessions, newSessionId, newSession)
        w1 == [saved EXCEPT !.currentSessionId = newSessionId,
                            !.sessions = newSessions,
                            !.nextSession = @ + 1]
    IN SetItem(SetItem(w1, SESSIONS_KEY, SessionsToJSON(newSessions)),
               CURRENT_SESSION_KEY, newSessionId)

\* createNewSession(); the value returned is the currentSessionId of the
\* result.  newSessions is built from the state read before the save.
createNewSession(w, now) ==
    LET saved == IF w.currentSessionId # Null /\ Len(w.tree.nodes) > 0
                 THEN saveCurrentSession(w, "", now) ELSE w
        newSessionId == SessionId(saved.nextSession + 1)
        newSession ==
            [id |-> newSessionId, name |-> "New Session " \o ToString(now),
             createdAt |-> now, updatedAt |-> now,
             tree |-> [nodes |-> [kind |-> "Map", items |-> initialTree.nodes],
                       rootIds |-> initialTree.rootIds]]
        newSessions == MapSet(w.sessions, newSessionId, newSession)
        w1 == [saved EXCEPT !.tree = initialTree,
                            !.currentSessionId = newSessionId,
                            !.sessions = newSessions,
                            !.nextSession = @ + 1]
    IN SetItem(SetItem(w1, SESSIONS_KEY, SessionsToJSON(newSessions)),
               CURRENT_SESSION_KEY, newSessionId)

\* deleteSession(sessionId); newSessions is built from the state read before
\* createNewSession ran.
deleteSession(w, sessionId, now) ==
    LET created == IF w.currentSessionId = sessionId
                   THEN createNewSession(w, now) ELSE w
        newSessions == MapDelete(w.sessions, sessionId)
    IN SetItem([created EXCEPT !.sessions = newSessions],
               SESSIONS_KEY, SessionsToJSON(newSessions))

\* The sort left out: the sessions in the order of the Map.
SortByUpdatedAt_Unsorted(list) == list

\* getSessionList(): a stable sort by updatedAt, latest first.
RECURSIVE SortByUpdatedAt(_)
SortByUpdatedAt(list) ==
    IF list = <<>> THEN <<>>
    ELSE LET top == CHOOSE i \in DOMAIN list :
                      /\ \A j \in DOMAIN list : list[j].updatedAt <= list[i].updatedAt
                      /\ \A j \in 1..(i - 1) : list[j].updatedAt < list[i].updatedAt
             rest == [j \in 1..(Len(list) - 1) |->
                         IF j < top THEN list[j] ELSE list[j + 1]]
         IN <<list[top]>> \o SortByUpdatedAt(rest)

getSessionList(ss) == SortByUpdatedAt([i \in DOMAIN ss |-> ss[i].v])

\* renameSession that stamps createdAt as well.
renameSession_ResetsCreatedAt(w, sessionId, newName, now) ==
    IF ~MapHas(w.sessions, sessionId) THEN w
    ELSE LET session == MapGet(w.sessions, sessionId)
             newSessions == MapSet(w.sessions, sessionId,
                                   [session EXCEPT !.name = newName,
                                                   !.createdAt = now,
                                                   !.updatedAt = now])
         IN SetItem([w EXCEPT !.sessions = newSessions],
                    SESSIONS_KEY, SessionsToJSON(newSessions))

\* renameSession(sessionId, newName)
renameSession(w, sessionId, newName, now) ==
    IF ~MapHas(w.sessions, sessionId) THEN w
    ELSE LET session == MapGet(w.sessions, sessionId)
             newSessions == MapSet(w.sessions, sessionId,
                                   [session EXCEPT !.name = newName,
                                                   !.updatedAt = now])
         IN SetItem([w EXCEPT !.sessions = newSessions],
                    SESSIONS_KEY, SessionsToJSON(newSessions))

\* Array.from(session.tree.nodes.entries()): the entries of a Map are its
\* [key, value] pairs, the entries of an array its [index, element] pairs.
NodesEntries(nodes) ==
    IF nodes.kind = "Map" THEN nodes.items ELSE ArrayEntries(nodes.items)

\* exportSession that answers an unknown id with the document of an empty
\* session.
exportSession_Lenient(w, sessionId, now) ==
    LET session == IF MapHas(w.sessions, sessionId) THEN MapGet(w.sessions, sessionId)
                   ELSE [id |-> sessionId, name |-> "", createdAt |-> now,
                         updatedAt |-> now,
                         tree |-> [nodes |-> [kind |-> "Map", items |-> <<>>],
                                   rootIds |-> <<>>]]
    IN [kind |-> "document", version |-> "1.0", exportedAt |-> now,
        session |-> [id |-> session.id, name |-> session.name,
                     createdAt |-> session.createdAt,
                     updatedAt |-> session.updatedAt,
                     tree |-> [nodes |-> NodesEntries(session.tree.nodes),
                               rootIds |-> session.tree.rootIds]]]

\* exportSession(sessionId): the document, as JSON.parse reads it back.
exportSession(w, sessionId, now) ==
    IF ~MapHas(w.sessions, sessionId) THEN [kind |-> "threw"]
    ELSE LET session == MapGet(w.sessions, sessionId)
         IN [kind |-> "document", version |-> "1.0", exportedAt |-> now,
             session |-> [id |-> session.id, name |-> session.name,
                          createdAt |-> session.createdAt,
                          updatedAt |-> session.updatedAt,
                          tree |-> [nodes |-> NodesEntries(session.tree.nodes),
                                    rootIds |-> session.tree.rootIds]]]

\* if (!node.name) node.name = generateNodeName(node.parentId).  A value that
\* is a [id, node] pair has no name either; the name then set on the array
\* is no element of it and is seen by nothing.
BackfillName(w, v) ==
    IF IsNode(v) /\ v.name = ""
    THEN [v EXCEPT !.name = generateNodeName(w, v.parentId)]
    ELSE v

BackfillNames(w, nodes) ==
    [i \in DOMAIN nodes |-> Entry(nodes[i].k, BackfillName(w, nodes[i].v))]

\* importSession that registers the session under the id the document carries.
importSession_KeepsId(w, data, now) ==
    IF data.kind # "document" THEN [w EXCEPT !.threw = TRUE]
    ELSE LET importedSession == data.session
             nodes == BackfillNames(w, MapFromPairs(importedSession.tree.nodes))
             newSessionId == importedSession.id
             session ==
                 [id |-> newSessionId,
                  name |-> IF importedSession.name # "" THEN importedSession.name
                           ELSE "Imported Session " \o ToString(now),
                  createdAt |-> IF importedSession.createdAt # 0
                                THEN importedSession.createdAt ELSE now,
                  updatedAt |-> now,
                  tree |-> [nodes |-> [kind |-> "Map", items |-> nodes],
                            rootIds |-> importedSession.tree.rootIds]]
             newSessions == MapSet(w.sessions, newSessionId, session)
         IN SetItem([w EXCEPT !.sessions = newSessions, !.nextSession = @ + 1],
                    SESSIONS_KEY, SessionsToJSON(newSessions))

\* importSession without its validation: text that is no session document is
\* read as the document of an empty, unnamed session.
importSession_Lenient(w, data, now) ==
    LET importedSession ==
            IF data.kind = "document" THEN data.session
            ELSE [id |-> "", name |-> "", createdAt |-> 0, updatedAt |-> 0,
                  tree |-> [nodes |-> <<>>, rootIds |-> <<>>]]
        nodes == BackfillNames(w, MapFromPairs(importedSession.tree.nodes))
        newSessionId == SessionId(w.nextSession + 1)
        session ==
            [id |-> newSessionId,
             name |-> IF importedSession.name # "" THEN importedSession.name
                      ELSE "Imported Session " \o ToString(now),
             createdAt |-> IF importedSession.createdAt # 0
                           THEN importedSession.createdAt ELSE now,
             updatedAt |-> now,
             tree |-> [nodes |-> [kind |-> "Map", items |-> nodes],
                       rootIds |-> importedSession.tree.rootIds]]
        newSessions == MapSet(w.sessions, newSessionId, session)
    IN SetItem([w EXCEPT !.sessions = newSessions, !.nextSession = @ + 1],
               SESSIONS_KEY, SessionsToJSON(newSessions))

\* importSession(sessionData); the value returned is the key appended to
\* sessions.  A document is "unparseable", "noSession", "noTree" or a
\* "document" with session.tree.
importSession(w, data, now) ==
    IF data.kind # "document" THEN [w EXCEPT !.threw = TRUE]
    ELSE LET importedSession == data.session
             nodes == BackfillNames(w, MapFromPairs(importedSession.tree.nodes))
             newSessionId == SessionId(w.nextSession + 1)
             session ==
                 [id |-> newSessionId,
                  name |-> IF importedSession.name # "" THEN importedSession.name
                           ELSE "Imported Session " \o ToString(now),
                  createdAt |-> IF importedSession.createdAt # 0
                                THEN importedSession.createdAt ELSE now,
                  updatedAt |-> now,
                  tree |-> [nodes |-> [kind |-> "Map", items |-> nodes],
                            rootIds |-> importedSession.tree.rootIds]]
             newSessions == MapSet(w.sessions, newSessionId, session)
         IN SetItem([w EXCEPT !.sessions = newSessions, !.nextSession = @ + 1],
                    SESSIONS_KEY, SessionsToJSON(newSessions))

\* The active tree made of a session's tree: a new Map of its nodes and a
\* copy of its rootIds.
SessionTree(session) ==
    [nodes |-> NodesToMap(session.tree.nodes), rootIds |-> session.tree.rootIds]

\* One [id, sessionData] pair of the parsed session index, as loadFromStorage
\* rebuilds it: an array of pairs becomes a Map, anything else an empty Map.
ParseSession(w, id, sessionData, now) ==
    LET nodes == IF sessionData.tree.nodes.kind = "Array"
                 THEN MapFromPairs(sessionData.tree.nodes.items)
                 ELSE <<>>
    IN [id |-> IF sessionData.id # "" THEN sessionData.id ELSE id,
        name |-> IF sessionData.name # "" THEN sessionData.name
                 ELSE "Session " \o id,
        createdAt |-> IF sessionData.createdAt # 0 THEN sessionData.createdAt ELSE now,
        updatedAt |-> IF sessionData.updatedAt # 0 THEN sessionData.updatedAt ELSE now,
        tree |-> [nodes |-> [kind |-> "Map", items |-> BackfillNames(w, nodes)],
                  rootIds |-> sessionData.tree.rootIds]]

\* loadFromStorage().  Its catch branch needs a read or a parse to fail,
\* which no stored value written by this store does.
loadFromStorage(w, now) ==
    LET sessionsArray == IF HasItem(w.ls, SESSIONS_KEY) THEN w.ls[SESSIONS_KEY]
                         ELSE <<>>
        loadedSessions ==
            MapFromPairs([i \in DOMAIN sessionsArray |->
                Entry(sessionsArray[i].k,
                      ParseSession(w, sessionsArray[i].k, sessionsArray[i].v, now))])
        \* Load current session ID
        storedCurrent == IF HasItem(w.ls, CURRENT_SESSION_KEY)
                         THEN w.ls[CURRENT_SESSION_KEY] ELSE Null
        \* Backward compatibility: migrate old single session to new format
        migrates == HasItem(w.ls, STORAGE_KEY) /\ Len(loadedSessions) = 0
        migratedSessionId == SessionId(w.nextSession + 1)
        migratedSession ==
            LET data == w.ls[STORAGE_KEY]
            IN [id |-> migratedSessionId, name |-> "Migrated Session",
                createdAt |-> now, updatedAt |-> now,
                tree |-> [nodes |-> [kind |-> "Map",
                                     items |-> BackfillNames(w, MapFromPairs(data.nodes))],
                          rootIds |-> data.rootIds]]
        allSessions == IF migrates
                       THEN MapSet(loadedSessions, migratedSessionId, migratedSession)
                       ELSE loadedSessions
        \* setItem(CURRENT_SESSION_KEY) then removeItem(STORAGE_KEY), in one try
        migrated ==
            IF ~migrates THEN w
            ELSE LET w1 == [w EXCEPT !.nextSession = @ + 1]
                 IN IF w.fails THEN w1
                    ELSE RemoveItem(SetItem(w1, CURRENT_SESSION_KEY, migratedSessionId),
                                    STORAGE_KEY)
    IN IF storedCurrent # Null /\ MapHas(allSessions, storedCurrent)
       THEN [migrated EXCEPT
                !.tree = SessionTree(MapGet(allSessions, storedCurrent)),
                !.currentSessionId = storedCurrent,
                !.sessions = allSessions]
       ELSE IF Len(allSessions) > 0
       THEN \* Load most recent session
            LET mostRecent == getSessionList(allSessions)[1]
            IN [migrated EXCEPT !.tree = SessionTree(mostRecent),
                                !.currentSessionId = mostRecent.id,
                                !.sessions = allSessions]
       ELSE \* Create new session; the set() that follows puts back the
            \* sessions this call built
            LET created == createNewSession(migrated, now)
            IN [created EXCEPT !.tree = initialTree, !.sessions = allSessions]

(***************************************************************************)
(* Context building (utils/contextBuilder.ts, utils/answerParser.ts).  A    *)
(* text is the sequence of its paragraphs, which blank lines separate in    *)
(* the string; the context is the sequence of the parts that                *)
(* contextParts.join('\n\n') joins, tagged by the prefix of each ("Q: ",    *)
(* "A: ", "A (selected section): "), and the empty string is <<>>.          *)
(***************************************************************************)

\* selectedSectionIndex === undefined
NoSection == -1

\* parseAnswerIntoSections(answer) for an answer of plain paragraphs (no
\* markdown header, no list marker): one section for each paragraph.
parseAnswerIntoSections(answer) ==
    [i \in DOMAIN answer |->
        [id |-> "section-" \o ToString(i - 1), text |-> <<answer[i]>>, index |-> i - 1]]

ContextPart(prefix, text) == [prefix |-> prefix, text |-> text]

\* The chain nodes whose answer buildContext hands to
\* parseAnswerIntoSections, in call order.
SegmentationCalls(parentNode, chain, selectedSectionIndex) ==
    IF chain = <<>> THEN <<>>
    ELSE LET isContinuingFromChild ==
                 /\ parentNode # <<>>
                 /\ parentNode[1].parentId # Null
                 /\ selectedSectionIndex = NoSection
             chainNode == chain[Len(chain)]
         IN IF isContinuingFromChild THEN <<>>
            ELSE IF selectedSectionIndex = NoSection THEN <<>>
            ELSE IF /\ "answerSections" \in DOMAIN chainNode
                    /\ chainNode.answerSections # <<>>
                 THEN <<>>
                 ELSE <<chainNode>>

\* buildContext with the continuing-from-child rule left out: always the
\* full chain.
buildContext_FullChain(parentNode, chain, selectedSectionIndex) ==
    [j \in 1..(2 * Len(chain)) |->
        LET index == (j + 1) \div 2
            chainNode == chain[index]
            isLastNode == index = Len(chain)
            sections == IF /\ "answerSections" \in DOMAIN chainNode
                           /\ chainNode.answerSections # <<>>
                        THEN chainNode.answerSections
                        ELSE parseAnswerIntoSections(chainNode.answer)
        IN IF j % 2 = 1 THEN ContextPart("Q: ", <<chainNode.question>>)
           ELSE IF isLastNode /\ selectedSectionIndex # NoSection
                   /\ selectedSectionIndex + 1 \in DOMAIN sections
                THEN ContextPart("A (selected section): ",
                                 sections[selectedSectionIndex + 1].text)
                ELSE ContextPart("A: ", chainNode.answer)]

\* buildContext with the section substitution left out: always the full
\* answer.
buildContext_FullAnswers(parentNode, chain, selectedSectionIndex) ==
    IF chain = <<>> THEN <<>>
    ELSE LET isContinuingFromChild ==
                 /\ parentNode # <<>>
                 /\ parentNode[1].parentId # Null
                 /\ selectedSectionIndex = NoSection
         IN IF isContinuingFromChild
            THEN LET immediateParent == chain[Len(chain)]
                 IN <<ContextPart("Q: ", <<immediateParent.question>>),
                      ContextPart("A: ", immediateParent.answer)>>
            ELSE [j \in 1..(2 * Len(chain)) |->
                    LET chainNode == chain[(j + 1) \div 2]
                    IN IF j % 2 = 1 THEN ContextPart("Q: ", <<chainNode.question>>)
                       ELSE ContextPart("A: ", chainNode.answer)]

\* buildContext(parentNode, chain, selectedSectionIndex); parentNode is <<>>
\* for null and <<node>> for a node.
buildContext(parentNode, chain, selectedSectionIndex) ==
    IF chain = <<>> THEN <<>>
    ELSE LET isContinuingFromChild ==
                 /\ parentNode # <<>>
                 /\ parentNode[1].parentId # Null
                 /\ selectedSectionIndex = NoSection
         IN IF isContinuingFromChild
            THEN \* Only use the immediate parent node
                 LET immediateParent == chain[Len(chain)]
                 IN <<ContextPart("Q: ", <<immediateParent.question>>),
                      ContextPart("A: ", immediateParent.answer)>>
            ELSE \* Use full chain context: two parts for each chain node
                 [j \in 1..(2 * Len(chain)) |->
                    LET index == (j + 1) \div 2
                        chainNode == chain[index]
                        isLastNode == index = Len(chain)
                        sections == IF /\ "answerSections" \in DOMAIN chainNode
                                       /\ chainNode.answerSections # <<>>
                                    THEN chainNode.answerSections
                                    ELSE parseAnswerIntoSections(chainNode.answer)
                    IN IF j % 2 = 1 THEN ContextPart("Q: ", <<chainNode.question>>)
                       ELSE IF isLastNode /\ selectedSectionIndex # NoSection
                               /\ selectedSectionIndex + 1 \in DOMAIN sections
                            THEN ContextPart("A (selected section): ",
                                             sections[selectedSectionIndex + 1].text)
                            ELSE ContextPart("A: ", chainNode.answer)]

(***************************************************************************)
(* The application: the page load, the two mount effects that both call     *)
(* loadFromStorage, and the UI handlers.                                    *)
(***************************************************************************)

NoOp == [op |-> "init", arg |-> "", threw |-> FALSE, events |-> <<>>]

\* No handleSubmit call is awaiting its answer.
NoRequest == [kind |-> "none"]

\* A node with the question asked and the answer received for it: two
\* paragraphs, the answer of the second node generated a single one and the
\* answer of the third none (the provider returns '' for a completion without
\* content).  The optional field answerSections is absent, as in a node saved
\* before answers were parsed.
Node(id, name, parentId, position) ==
    [id |-> id, name |-> name, question |-> "question of " \o id,
     answer |-> IF id = NodeId(2) THEN <<"answer of " \o id>>
                ELSE IF id = NodeId(3) THEN <<>>
                ELSE <<"answer of " \o id, "more of " \o id>>,
     parentId |-> parentId, childrenIds |-> <<>>,
     context |-> <<>>, position |-> position, isCollapsed |-> FALSE,
     selectedSectionIndexFromParent |-> NoSection]

\* A single-session blob of the old format, its nodes saved before nodes
\* had names.
LegacyBlob ==
    [nodes |-> <<Entry("old1", [Node("old1", "", Null, [x |-> 100, y |-> 100])
                                  EXCEPT !.childrenIds = <<"old2">>]),
                 Entry("old2", Node("old2", "", "old1", [x |-> 150, y |-> 300]))>>,
     rootIds |-> <<"old1">>]

EmptyStorage == [key \in {} |-> <<>>]

InitialStorages == {EmptyStorage, [key \in {STORAGE_KEY} |-> LegacyBlob]}

\* A session file exported by another installation.
ForeignDocument ==
    [kind |-> "document", version |-> "1.0", exportedAt |-> 1,
     session |-> [id |-> SessionId(1), name |-> "Shared", createdAt |-> 1,
                  updatedAt |-> 1,
                  tree |-> [nodes |-> <<Entry("far1",
                                Node("far1", "Question 1", Null, [x |-> 100, y |-> 100]))>>,
                            rootIds |-> <<"far1">>]]]

\* Files the user may pick in the import dialog.
ImportFiles ==
    {ForeignDocument, [kind |-> "unparseable"], [kind |-> "noSession"],
     [kind |-> "noTree"]}
        \cup (IF exported.kind = "document" THEN {exported} ELSE {})

Init ==
    /\ tree = initialTree
    /\ currentSessionId = Null
    /\ sessions = <<>>
    /\ localStorage \in InitialStorages
    /\ storageFails = FALSE
    /\ clock = 1
    /\ nextNode = 0
    /\ nextSession = 0
    /\ ops = 0
    /\ phase = "mount1"
    /\ exported = [kind |-> "none"]
    /\ inflight = NoRequest
    /\ lastOp = NoOp

\* The store and the persisted store after an operation that left world w.
Commit(w, op, arg) ==
    /\ tree' = w.tree
    /\ currentSessionId' = w.currentSessionId
    /\ sessions' = w.sessions
    /\ localStorage' = w.ls
    /\ nextSession' = w.nextSession
    /\ clock' = clock + 1
    /\ lastOp' = [op |-> op, arg |-> arg, threw |-> w.threw, events |-> w.events]
    /\ UNCHANGED storageFails

\* ConversationCanvas renders every value of tree.nodes as a node and reads
\* node.position.x: a value that is no node throws there and unmounts the
\* application, which then takes no input until the page is loaded again.
Rendered == \A i \in DOMAIN tree.nodes : IsNode(tree.nodes[i].v)

UserCan == phase = "run" /\ Rendered /\ ops < MaxOps

UserOp == ops' = ops + 1 /\ UNCHANGED <<phase, inflight>>

\* useEffect(() => { loadFromStorage() }, []) of ConversationCanvas, then of App.
MountLoad ==
    /\ phase \in {"mount1", "mount2"}
    /\ Commit(loadFromStorage(World, clock), "loadFromStorage", "")
    /\ phase' = IF phase = "mount1" THEN "mount2" ELSE "run"
    /\ UNCHANGED <<nextNode, ops, exported, inflight>>

\* The page is loaded again: a new store, the same localStorage.
Reload ==
    /\ phase = "run" /\ ops < MaxOps
    /\ Commit([World EXCEPT !.tree = initialTree, !.currentSessionId = Null,
                            !.sessions = <<>>], "reload", "")
    /\ phase' = "mount1"
    /\ ops' = ops + 1
    /\ inflight' = NoRequest
    /\ UNCHANGED <<nextNode, exported>>

\* Ids the input panel may hold as parentNodeId when the answer arrives:
\* none, or a node that was on the canvas when the question was started.
SpawnParents ==
    {Null} \cup MapKeys(tree.nodes) \cup {NodeId(i) : i \in 1..nextNode}

\* The node handleSubmit builds for the props parentNodeId and
\* selectedSectionIndex.
SubmittedNode(parentNodeId, selectedSectionIndex) ==
    LET parentNode == IF parentNodeId # Null /\ MapHas(tree.nodes, parentNodeId)
                      THEN <<MapGet(tree.nodes, parentNodeId)>> ELSE <<>>
        chain == IF parentNodeId # Null THEN getNodeChain(tree, parentNodeId) ELSE <<>>
        context == buildContext(parentNode, chain, selectedSectionIndex)
        newNodeId == NodeId(nextNode + 1)
        position ==
            IF parentNode # <<>>
            THEN [x |-> parentNode[1].position.x + 50,
                  y |-> parentNode[1].position.y + 200]
            ELSE [x |-> 100, y |-> 100]
        node == Node(newNodeId, generateNodeName(World, parentNodeId),
                     parentNodeId, position)
    IN Merge(node,
             [answerSections |-> parseAnswerIntoSections(node.answer),
              context |-> IF context # <<>> THEN <<context>> ELSE <<>>,
              selectedSectionIndexFromParent |-> selectedSectionIndex])

\* InferenceWindow.handleSubmit with no section selected, from the answer's
\* arrival on.
HandleSubmit ==
    /\ UserCan /\ nextNode < MaxNodes
    /\ \E parentNodeId \in SpawnParents :
          LET newNode == SubmittedNode(parentNodeId, NoSection)
          IN Commit(addNode(World, newNode, clock), "addNode", newNode.id)
    /\ nextNode' = nextNode + 1
    /\ UserOp /\ UNCHANGED exported

\* ChatNode.handleDelete
HandleDelete ==
    /\ UserCan
    /\ \E id \in MapKeys(tree.nodes) :
          Commit(deleteNode(World, id, clock), "deleteNode", id)
    /\ UserOp /\ UNCHANGED <<nextNode, exported>>

\* ConversationCanvas.onNodeDragStop
OnNodeDragStop ==
    /\ UserCan
    /\ \E id \in MapKeys(tree.nodes) :
          Commit(updateNode(World, id, [position |-> [x |-> 0, y |-> 0]], clock),
                 "updateNode", id)
    /\ UserOp /\ UNCHANGED <<nextNode, exported>>

\* ChatNode.handleToggleCollapse
HandleToggleCollapse ==
    /\ UserCan
    /\ \E id \in MapKeys(tree.nodes) :
          Commit(toggleCollapse(World, id, clock), "toggleCollapse", id)
    /\ UserOp /\ UNCHANGED <<nextNode, exported>>

\* App.handleClearCanvas
HandleClearCanvas ==
    /\ UserCan
    /\ Commit(clearAll(World, clock), "clearAll", "")
    /\ UserOp /\ UNCHANGED <<nextNode, exported>>

\* App.handleAutoLayout
HandleAutoLayout ==
    /\ UserCan
    /\ Commit(applyAutoLayout(World, clock), "applyAutoLayout", "")
    /\ UserOp /\ UNCHANGED <<nextNode, exported>>

\* SessionManager.handleSaveCurrent: a name typed at the prompt
HandleSaveCurrent ==
    /\ UserCan
    /\ Commit(saveCurrentSession(World, "Mine", clock), "saveCurrentSession", "Mine")
    /\ UserOp /\ UNCHANGED <<nextNode, exported>>

\* SessionManager.handleCreateNew
HandleCreateNew ==
    /\ UserCan /\ nextSession < MaxSessions
    /\ Commit(createNewSession(World, clock), "createNewSession", "")
    /\ UserOp /\ UNCHANGED <<nextNode, exported>>

\* SessionManager.handleLoad
HandleLoad ==
    /\ UserCan
    /\ \E id \in MapKeys(sessions) :
          Commit(loadSession(World, id, clock), "loadSession", id)
    /\ UserOp /\ UNCHANGED <<nextNode, exported>>

\* SessionManager.handleDelete
HandleDeleteSession ==
    /\ UserCan /\ nextSession < MaxSessions
    /\ \E id \in MapKeys(sessions) :
          Commit(deleteSession(World, id, clock), "deleteSession", id)
    /\ UserOp /\ UNCHANGED <<nextNode, exported>>

\* SessionManager.handleSaveEdit
HandleSaveEdit ==
    /\ UserCan
    /\ \E id \in MapKeys(sessions) :
          Commit(renameSession(World, id, "Renamed", clock), "renameSession", id)
    /\ UserOp /\ UNCHANGED <<nextNode, exported>>

\* SessionManager.handleExport
HandleExport ==
    /\ UserCan
    /\ \E id \in MapKeys(sessions) :
          /\ exported' = exportSession(World, id, clock)
          /\ Commit(World, "exportSession", id)
    /\ UserOp /\ UNCHANGED nextNode

\* SessionManager.handleFileSelect
HandleFileSelect ==
    /\ UserCan /\ nextSession < MaxSessions
    /\ \E file \in ImportFiles :
          Commit(importSession(World, file, clock), "importSession", file.kind)
    /\ UserOp /\ UNCHANGED <<nextNode, exported>>

Next ==
    \/ MountLoad
    \/ Reload
    \/ HandleSubmit
    \/ HandleDelete
    \/ OnNodeDragStop
    \/ HandleToggleCollapse
    \/ HandleClearCanvas
    \/ HandleAutoLayout
    \/ HandleSaveCurrent
    \/ HandleCreateNew
    \/ HandleLoad
    \/ HandleDeleteSession
    \/ HandleSaveEdit
    \/ HandleExport
    \/ HandleFileSelect

Spec == Init /\ [][Next]_vars

\* The sections ChatNode shows for a node and lets the user select.
ShownSections(node) ==
    IF "answerSections" \in DOMAIN node THEN node.answerSections
    ELSE parseAnswerIntoSections(node.answer)

\* InferenceWindow.handleSubmit after "+" was pressed on a node with one of
\* its sections selected.
HandleSubmitSection ==
    /\ UserCan /\ nextNode < MaxNodes
    /\ \E parentNodeId \in MapKeys(tree.nodes) :
          \E selectedSectionIndex \in
                {i - 1 : i \in DOMAIN ShownSections(MapGet(tree.nodes, parentNodeId))} :
             LET newNode == SubmittedNode(parentNodeId, selectedSectionIndex)
             IN Commit(addNode(World, newNode, clock), "addNode", newNode.id)
    /\ nextNode' = nextNode + 1
    /\ UserOp /\ UNCHANGED exported

\* Spawning conversations, with and without a selected section.
NextContext ==
    \/ MountLoad
    \/ HandleSubmit
    \/ HandleSubmitSection
    \/ HandleDelete

SpecContext == Init /\ [][NextContext]_vars

\* InferenceWindow.handleSubmit up to "await llmService.generate": the
\* parent node, the chain and the context are read from the store now, and
\* the closure keeps them with the props parentNodeId and
\* selectedSectionIndex.  isLoading admits one call at a time.
SubmitQuestion ==
    /\ UserCan /\ nextNode < MaxNodes
    /\ inflight = NoRequest
    /\ \E parentNodeId \in {Null} \cup MapKeys(tree.nodes) :
          \E selectedSectionIndex \in
                {NoSection} \cup
                (IF parentNodeId = Null THEN {}
                 ELSE {i - 1 : i \in DOMAIN ShownSections(MapGet(tree.nodes, parentNodeId))}) :
             LET parentNode == IF parentNodeId # Null
                               THEN <<MapGet(tree.nodes, parentNodeId)>> ELSE <<>>
                 chain == IF parentNodeId # Null
                          THEN getNodeChain(tree, parentNodeId) ELSE <<>>
             IN /\ inflight' = [kind |-> "request",
                                parentNodeId |-> parentNodeId,
                                selectedSectionIndex |-> selectedSectionIndex,
                                parentNode |-> parentNode,
                                context |-> buildContext(parentNode, chain,
                                                         selectedSectionIndex),
                                sessionId |-> currentSessionId]
                /\ lastOp' = [op |-> "submit", arg |-> parentNodeId, threw |-> FALSE,
                              events |-> <<>>]
    /\ ops' = ops + 1
    /\ UNCHANGED <<tree, currentSessionId, sessions, localStorage, storageFails,
                   clock, nextNode, nextSession, phase, exported>>

\* The node handleSubmit builds when the answer has arrived: the name is
\* generated from the store as it is now, the rest from what the closure
\* kept.
ArrivedNode ==
    LET position ==
            IF inflight.parentNode # <<>>
            THEN [x |-> inflight.parentNode[1].position.x + 50,
                  y |-> inflight.parentNode[1].position.y + 200]
            ELSE [x |-> 100, y |-> 100]
        node == Node(NodeId(nextNode + 1),
                     generateNodeName(World, inflight.parentNodeId),
                     inflight.parentNodeId, position)
    IN Merge(node,
             [answerSections |-> parseAnswerIntoSections(node.answer),
              context |-> IF inflight.context # <<>> THEN <<inflight.context>>
                          ELSE <<>>,
              selectedSectionIndexFromParent |-> inflight.selectedSectionIndex])

\* InferenceWindow.handleSubmit from the answer's arrival on: addNode on
\* the store as it is now.
AnswerArrives ==
    /\ phase = "run" /\ inflight # NoRequest
    /\ Commit(addNode(World, ArrivedNode, clock), "addNode", ArrivedNode.id)
    /\ nextNode' = nextNode + 1
    /\ inflight' = NoRequest
    /\ UNCHANGED <<ops, phase, exported>>

\* llmService.generate rejects: handleSubmit shows the error and adds no node.
AnswerFails ==
    /\ phase = "run" /\ inflight # NoRequest
    /\ inflight' = NoRequest
    /\ lastOp' = [op |-> "submitFailed", arg |-> inflight.parentNodeId,
                  threw |-> FALSE, events |-> <<>>]
    /\ UNCHANGED <<tree, currentSessionId, sessions, localStorage, storageFails,
                   clock, nextNode, nextSession, ops, phase, exported>>

\* A question in flight while the user goes on working with the canvas and
\* the session manager.
NextInflight ==
    \/ MountLoad
    \/ SubmitQuestion
    \/ AnswerArrives
    \/ AnswerFails
    \/ HandleDelete
    \/ HandleClearCanvas
    \/ HandleLoad
    \/ HandleCreateNew
    \/ HandleDeleteSession

SpecInflight == Init /\ [][NextInflight]_vars

\* The store's updateNode called with fields the UI never passes.
StructuralUpdates ==
    {[parentId |-> Null], [childrenIds |-> <<>>], [id |-> "other"],
     [answer |-> "edited"]}

\* Node ids a caller of the store may pass: the keys of the node mapping,
\* ids generated earlier and an id never generated.
AnyNodeIds == MapKeys(tree.nodes) \cup {NodeId(i) : i \in 0..nextNode}

ApiUpdateNode ==
    /\ UserCan
    /\ \E id \in AnyNodeIds, updates \in StructuralUpdates :
          Commit(updateNode(World, id, updates, clock), "updateNode", id)
    /\ UserOp /\ UNCHANGED <<nextNode, exported>>

\* The store's deleteNode called with any id.
ApiDeleteNode ==
    /\ UserCan
    /\ \E id \in AnyNodeIds :
          Commit(deleteNode(World, id, clock), "deleteNode", id)
    /\ UserOp /\ UNCHANGED <<nextNode, exported>>

\* The Tree Store alone: addNode, deleteNode and updateNode as the UI calls them.
NextTree ==
    \/ MountLoad
    \/ HandleSubmit
    \/ HandleDelete
    \/ OnNodeDragStop

SpecTree == Init /\ [][NextTree]_vars

\* The Tree Store called with any partial fields.
NextApi ==
    \/ NextTree
    \/ ApiUpdateNode
    \/ ApiDeleteNode

SpecApi == Init /\ [][NextApi]_vars

\* Session ids a caller of the store may pass: the keys of the session map,
\* ids generated earlier and an id never generated.
AnySessionIds ==
    MapKeys(sessions) \cup {SessionId(i) : i \in 0..nextSession}

\* The store's exportSession called with any id; a throw writes no file.
ApiExportSession ==
    /\ UserCan
    /\ \E id \in AnySessionIds :
          LET document == exportSession(World, id, clock)
          IN /\ exported' = IF document.kind = "threw" THEN exported ELSE document
             /\ Commit([World EXCEPT !.threw = (document.kind = "threw")],
                       "exportSession", id)
    /\ UserOp /\ UNCHANGED nextNode

\* The store's loadSession called with any id.
ApiLoadSession ==
    /\ UserCan
    /\ \E id \in AnySessionIds :
          Commit(loadSession(World, id, clock), "loadSession", id)
    /\ UserOp /\ UNCHANGED <<nextNode, exported>>

\* The store's deleteSession called with any id.
ApiDeleteSession ==
    /\ UserCan /\ nextSession < MaxSessions
    /\ \E id \in AnySessionIds :
          Commit(deleteSession(World, id, clock), "deleteSession", id)
    /\ UserOp /\ UNCHANGED <<nextNode, exported>>

\* The store's renameSession called with any id.
ApiRenameSession ==
    /\ UserCan
    /\ \E id \in AnySessionIds :
          Commit(renameSession(World, id, "Renamed", clock), "renameSession", id)
    /\ UserOp /\ UNCHANGED <<nextNode, exported>>

\* The application, and the Session Manager called with any session id.
NextSessions ==
    \/ Next
    \/ ApiExportSession
    \/ ApiLoadSession
    \/ ApiDeleteSession
    \/ ApiRenameSession

SpecSessions == Init /\ [][NextSessions]_vars

\* localStorage reaches its quota: from here on setItem throws.
QuotaExceeded ==
    /\ phase = "run" /\ ~storageFails
    /\ storageFails' = TRUE
    /\ lastOp' = [op |-> "quotaExceeded", arg |-> "", threw |-> FALSE,
                  events |-> <<>>]
    /\ UNCHANGED <<tree, currentSessionId, sessions, localStorage, clock,
                   nextNode, nextSession, ops, phase, exported, inflight>>

\* The application on a localStorage that may fill up.
NextQuota ==
    \/ Next
    \/ QuotaExceeded

SpecQuota == Init /\ [][NextQuota]_vars

(***************************************************************************)
(* Properties.                                                              *)
(***************************************************************************)

TreeMutators ==
    {"addNode", "updateNode", "deleteNode", "toggleCollapse", "clearAll",
     "applyAutoLayout"}

\* The ids of t whose parentId chain passes through id, and id itself.
SubtreeIds(t, id) ==
    {k \in MapKeys(t.nodes) :
        \E i \in DOMAIN getNodeChain(t, k) : getNodeChain(t, k)[i].id = id}
        \cup {id}

\* C1: after deleteNode(n.id) neither n nor any transitive descendant of n is
\* in the node mapping, and no remaining node's parentId refers to a removed id.
C1_CascadeComplete ==
    [][lastOp'.op = "deleteNode" =>
          LET removed == SubtreeIds(tree, lastOp'.arg)
          IN /\ removed \cap MapKeys(tree'.nodes) = {}
             /\ \A i \in DOMAIN tree'.nodes :
                   tree'.nodes[i].v.parentId \notin removed]_vars

\* Invariant 1: a parentId is absent or names an existing node whose
\* childrenIds contains the child.
Invariant1(t) ==
    \A i \in DOMAIN t.nodes :
        LET n == t.nodes[i].v
        IN n.parentId = Null
           \/ (MapHas(t.nodes, n.parentId)
               /\ t.nodes[i].k \in SeqToSet(MapGet(t.nodes, n.parentId).childrenIds))

\* Invariant 2: rootIds is exactly the set of ids with absent parentId.
Invariant2(t) ==
    SeqToSet(t.rootIds) = {t.nodes[i].k : i \in {j \in DOMAIN t.nodes :
                                                    t.nodes[j].v.parentId = Null}}

\* The node reached from id by n parentId hops, Null once the chain has left
\* the tree.
RECURSIVE Ancestor(_, _, _)
Ancestor(t, id, n) ==
    IF n = 0 \/ id = Null THEN id
    ELSE Ancestor(t, IF MapHas(t.nodes, id) THEN MapGet(t.nodes, id).parentId
                     ELSE Null, n - 1)

\* Invariant 3: following parentId ends within the tree's node count.
Invariant3(t) ==
    \A k \in MapKeys(t.nodes) : Ancestor(t, k, Len(t.nodes)) = Null

\* Invariant 4: childrenIds has no duplicates and no dangling ids.
Invariant4(t) ==
    \A i \in DOMAIN t.nodes :
        LET c == t.nodes[i].v.childrenIds
        IN /\ Cardinality(SeqToSet(c)) = Len(c)
           /\ SeqToSet(c) \subseteq MapKeys(t.nodes)

\* C2: after any sequence of addNode, deleteNode and updateNode calls the
\* four tree invariants hold.
C2_TreeInvariants ==
    phase = "run" =>
        Invariant1(tree) /\ Invariant2(tree) /\ Invariant3(tree) /\ Invariant4(tree)

\* The store a restart begins with: the mount effects run on a new store that
\* reads the localStorage the world w left.
NewStore(w) ==
    [w EXCEPT !.tree = initialTree, !.currentSessionId = Null, !.sessions = <<>>,
              !.threw = FALSE]

StoreOps ==
    TreeMutators \cup {"saveCurrentSession", "loadSession", "createNewSession",
                       "deleteSession", "renameSession", "exportSession",
                       "importSession"}

\* The node ids of a session's tree.
SessionNodeIds(session) == MapKeys(NodesToMap(session.tree.nodes))

\* C3: after any sequence of operations whose writes succeed, a restart
\* restores every session of the session map with the same node set and the
\* same rootIds.
C3_RestartRestoresSessions ==
    (lastOp.op \in StoreOps /\ ~storageFails) =>
        LET restarted == loadFromStorage(NewStore(World), clock)
        IN \A id \in MapKeys(sessions) :
              /\ MapHas(restarted.sessions, id)
              /\ SessionNodeIds(MapGet(restarted.sessions, id))
                     = SessionNodeIds(MapGet(sessions, id))
              /\ MapGet(restarted.sessions, id).tree.rootIds
                     = MapGet(sessions, id).tree.rootIds

\* C4: right after a tree mutation whose save succeeds, a restart (one
\* loadFromStorage on a new store, and also the two the mount effects run)
\* restores the same active session id and an equal active tree.
C4_MutationIsDurable ==
    (lastOp.op \in TreeMutators /\ ~storageFails) =>
        LET once == loadFromStorage(NewStore(World), clock)
            twice == loadFromStorage(once, clock + 1)
        IN /\ once.currentSessionId = currentSessionId
           /\ once.tree = tree
           /\ twice.currentSessionId = currentSessionId
           /\ twice.tree = tree

\* C4 witness: a node was deleted from a tree that keeps a node, with another
\* session stored beside the active one.
C4_Witness ==
    /\ lastOp.op = "deleteNode"
    /\ Len(tree.nodes) > 0
    /\ Len(sessions) > 1
    /\ loadFromStorage(NewStore(World), clock).tree = tree

\* C5: after deleteSession(id) of the active session, currentSessionId is a
\* new id that is a key of the session map, the active tree is empty, and id
\* is no longer a key.
C5_DeleteActiveSession ==
    [][(lastOp'.op = "deleteSession" /\ lastOp'.arg = currentSessionId) =>
          /\ currentSessionId' # Null
          /\ currentSessionId' # lastOp'.arg
          /\ MapHas(sessions', currentSessionId')
          /\ tree' = initialTree
          /\ ~MapHas(sessions', lastOp'.arg)]_vars

\* C6: a name given to the active session by saveCurrentSession(N) or by
\* renameSession is still its stored name after a tree mutation.
C6_AutoSaveKeepsName ==
    [][(/\ lastOp'.op \in TreeMutators
        /\ MapHas(sessions, currentSessionId)
        /\ MapGet(sessions, currentSessionId).name \in {"Mine", "Renamed"}) =>
          /\ MapHas(sessions', currentSessionId')
          /\ MapGet(sessions', currentSessionId').name
                 = MapGet(sessions, currentSessionId).name]_vars

\* The links and the answer of a value of a node mapping; a value that is
\* no node has none.
Links(v) ==
    IF IsNode(v)
    THEN [node |-> TRUE, id |-> v.id, parentId |-> v.parentId,
          childrenIds |-> v.childrenIds, answer |-> v.answer]
    ELSE [node |-> FALSE]

SameStructure(a, b) ==
    /\ MapKeys(a.nodes) = MapKeys(b.nodes)
    /\ \A k \in MapKeys(a.nodes) : Links(MapGet(a.nodes, k)) = Links(MapGet(b.nodes, k))
    /\ a.rootIds = b.rootIds

\* C7: for every session S of the session map, importSession(exportSession(S.id))
\* registers a session under a new id whose tree has the node ids, links,
\* answers and rootIds of S.
C7_ExportImportRoundTrip ==
    \A id \in MapKeys(sessions) :
        LET imported == importSession(World, exportSession(World, id, clock), clock)
            newId == imported.sessions[Len(imported.sessions)].k
        IN /\ ~imported.threw
           /\ newId \notin MapKeys(sessions)
           /\ SameStructure(SessionTree(MapGet(imported.sessions, newId)),
                            SessionTree(MapGet(sessions, id)))

\* C8: exportSession(id) writes session.tree.nodes as one [id, node] pair per
\* node of the session's tree, and the session's rootIds.
C8_ExportedNodesArePairs ==
    \A id \in MapKeys(sessions) :
        LET document == exportSession(World, id, clock)
            nodes == NodesToMap(MapGet(sessions, id).tree.nodes)
            pairs == document.session.tree.nodes
        IN /\ Len(pairs) = Len(nodes)
           /\ \A i \in DOMAIN pairs :
                 /\ MapHas(nodes, pairs[i].k)
                 /\ pairs[i].v = MapGet(nodes, pairs[i].k)
           /\ {pairs[i].k : i \in DOMAIN pairs} = MapKeys(nodes)
           /\ document.session.tree.rootIds = MapGet(sessions, id).tree.rootIds

\* C9: after addNode(node) with a fresh id, the new node's parentId is absent
\* or names an existing node whose childrenIds contains node.id, and the node
\* is in rootIds exactly when its parentId is absent.
C9_AddNodePostcondition ==
    lastOp.op = "addNode" =>
        LET node == MapGet(tree.nodes, lastOp.arg)
        IN /\ node.parentId = Null
              \/ (MapHas(tree.nodes, node.parentId)
                  /\ lastOp.arg \in SeqToSet(MapGet(tree.nodes, node.parentId).childrenIds))
           /\ (lastOp.arg \in SeqToSet(tree.rootIds)) <=> (node.parentId = Null)

\* C10: updateNode(id, fields) leaves the keys of the node mapping, every
\* node's id, parentId and childrenIds, rootIds and every other node as
\* they were.
C10_UpdateKeepsStructure ==
    [][lastOp'.op = "updateNode" =>
          /\ [i \in DOMAIN tree'.nodes |-> tree'.nodes[i].k]
                 = [i \in DOMAIN tree.nodes |-> tree.nodes[i].k]
          /\ \A k \in MapKeys(tree.nodes) :
                LET before == MapGet(tree.nodes, k)
                    after == MapGet(tree'.nodes, k)
                IN /\ after.id = before.id
                   /\ after.parentId = before.parentId
                   /\ after.childrenIds = before.childrenIds
                   /\ (k # lastOp'.arg => after = before)
          /\ tree'.rootIds = tree.rootIds]_vars

\* The session ids of the persisted index.
IndexKeys(l) ==
    IF HasItem(l, SESSIONS_KEY)
    THEN {l[SESSIONS_KEY][i].k : i \in DOMAIN l[SESSIONS_KEY]}
    ELSE {}

\* The tree t has the nodes of the legacy blob, in its order and with every
\* field but the back-filled name, and its rootIds.
LegacyNodesKept(t, blob) ==
    /\ [i \in DOMAIN t.nodes |-> t.nodes[i].k]
           = [i \in DOMAIN blob.nodes |-> blob.nodes[i].k]
    /\ \A i \in DOMAIN t.nodes :
          /\ IsNode(t.nodes[i].v)
          /\ [t.nodes[i].v EXCEPT !.name = ""] = [blob.nodes[i].v EXCEPT !.name = ""]
          /\ t.nodes[i].v.name # ""
    /\ t.rootIds = blob.rootIds

\* C11: loadFromStorage with a legacy blob and no session in the index (its
\* writes succeeding) leaves a session map of exactly one session, whose tree
\* has the blob's nodes and rootIds; that session is active, the active tree
\* is its tree, and the legacy record is gone from localStorage.
C11_LegacyMigration ==
    [][(/\ lastOp'.op = "loadFromStorage"
        /\ HasItem(localStorage, STORAGE_KEY)
        /\ IndexKeys(localStorage) = {}
        /\ ~storageFails) =>
          /\ Len(sessions') = 1
          /\ LegacyNodesKept(SessionTree(sessions'[1].v), localStorage[STORAGE_KEY])
          /\ currentSessionId' = sessions'[1].k
          /\ sessions'[1].v.id = sessions'[1].k
          /\ tree' = SessionTree(sessions'[1].v)
          /\ ~HasItem(localStorage', STORAGE_KEY)]_vars

\* C11 witness: the first mount load has migrated the two-node legacy blob.
C11_Witness ==
    /\ lastOp.op = "loadFromStorage"
    /\ phase = "mount2"
    /\ Len(sessions) = 1
    /\ sessions[1].v.name = "Migrated Session"
    /\ MapKeys(tree.nodes) = {"old1", "old2"}
    /\ ~HasItem(localStorage, STORAGE_KEY)

\* C12: a loadFromStorage that follows a migrating loadFromStorage leaves the
\* session ids in memory and in the persisted index as the first run left them.
C12_SecondLoadAddsNoSession ==
    [][(/\ lastOp.op = "loadFromStorage"
        /\ Len(sessions) = 1
        /\ sessions[1].v.name = "Migrated Session"
        /\ ~HasItem(localStorage, STORAGE_KEY)
        /\ lastOp'.op = "loadFromStorage") =>
          /\ MapKeys(sessions') = MapKeys(sessions)
          /\ IndexKeys(localStorage') = IndexKeys(localStorage)]_vars

\* The sessions of the persisted index whose updatedAt is the greatest.
MostRecentIds(l) ==
    {l[SESSIONS_KEY][i].k : i \in {j \in DOMAIN l[SESSIONS_KEY] :
        \A k \in DOMAIN l[SESSIONS_KEY] :
            l[SESSIONS_KEY][k].v.updatedAt <= l[SESSIONS_KEY][j].v.updatedAt}}

\* The node ids a persisted session record holds.
PersistedNodeIds(sessionData) ==
    {sessionData.tree.nodes.items[i].k : i \in DOMAIN sessionData.tree.nodes.items}

\* C13: loadFromStorage on an index of one session or more makes active the
\* recorded session id if the index has it, else a session of the greatest
\* updatedAt; the active tree is that session's tree, with the node ids and
\* rootIds of its persisted record, and the session map has the ids of the
\* index and no other.
C13_ActiveSessionSelection ==
    [][(lastOp'.op = "loadFromStorage" /\ IndexKeys(localStorage) # {}) =>
          LET recorded == IF HasItem(localStorage, CURRENT_SESSION_KEY)
                          THEN localStorage[CURRENT_SESSION_KEY] ELSE Null
          IN /\ IF recorded \in IndexKeys(localStorage)
                THEN currentSessionId' = recorded
                ELSE currentSessionId' \in MostRecentIds(localStorage)
             /\ MapHas(sessions', currentSessionId')
             /\ tree' = SessionTree(MapGet(sessions', currentSessionId'))
             /\ MapKeys(tree'.nodes)
                    = PersistedNodeIds(MapGet(localStorage[SESSIONS_KEY], currentSessionId'))
             /\ tree'.rootIds
                    = MapGet(localStorage[SESSIONS_KEY], currentSessionId').tree.rootIds
             /\ MapKeys(sessions') = IndexKeys(localStorage)
             /\ IndexKeys(localStorage') = IndexKeys(localStorage)
             /\ nextSession' = nextSession]_vars

\* C13 witness: a load found two sessions of different age in the index and a
\* recorded id that is none of them, and made the later one active.
C13_Witness ==
    /\ lastOp.op = "loadFromStorage"
    /\ HasItem(localStorage, CURRENT_SESSION_KEY)
    /\ Cardinality(IndexKeys(localStorage)) > 1
    /\ localStorage[CURRENT_SESSION_KEY] \notin IndexKeys(localStorage)
    /\ MostRecentIds(localStorage) # IndexKeys(localStorage)
    /\ currentSessionId \in MostRecentIds(localStorage)
    /\ MapKeys(sessions) = IndexKeys(localStorage)

\* C14: loadFromStorage with no session in the index and no legacy blob
\* leaves a non-null currentSessionId that was no session before, that is a
\* key of the session map and of the persisted index, with an empty tree
\* stored for it and an empty active tree.
C14_FirstRunCreatesSession ==
    [][(/\ lastOp'.op = "loadFromStorage"
        /\ IndexKeys(localStorage) = {}
        /\ ~HasItem(localStorage, STORAGE_KEY)
        /\ ~storageFails) =>
          /\ currentSessionId' # Null
          /\ currentSessionId' \notin MapKeys(sessions)
          /\ MapHas(sessions', currentSessionId')
          /\ SessionTree(MapGet(sessions', currentSessionId')) = initialTree
          /\ currentSessionId' \in IndexKeys(localStorage')
          /\ tree' = initialTree]_vars

\* C15: an importSession that succeeds appends one entry to the session map
\* under an id that was no key of it, and leaves every earlier entry, the
\* active session id and the active tree as they were.
C15_ImportIsFresh ==
    [][(lastOp'.op = "importSession" /\ ~lastOp'.threw) =>
          /\ Len(sessions') = Len(sessions) + 1
          /\ SubSeq(sessions', 1, Len(sessions)) = sessions
          /\ sessions'[Len(sessions')].k \notin MapKeys(sessions)
          /\ sessions'[Len(sessions')].v.id = sessions'[Len(sessions')].k
          /\ currentSessionId' = currentSessionId
          /\ tree' = tree]_vars

\* C15 witness: the document of ForeignDocument, which carries the id of an
\* existing session, was imported beside that session.
C15_Witness ==
    /\ lastOp.op = "importSession"
    /\ ~lastOp.threw
    /\ MapHas(sessions, ForeignDocument.session.id)
    /\ MapGet(sessions, ForeignDocument.session.id).name # "Shared"
    /\ sessions[Len(sessions)].v.name = "Shared"
    /\ sessions[Len(sessions)].k # ForeignDocument.session.id

\* C16: importSession on text that is unparseable or has no session or no
\* session.tree throws, and leaves the session map, the active session id,
\* the active tree and localStorage as they were.
C16_ImportRejectsInvalid ==
    [][(/\ lastOp'.op = "importSession"
        /\ lastOp'.arg \in {"unparseable", "noSession", "noTree"}) =>
          /\ lastOp'.threw
          /\ UNCHANGED <<sessions, currentSessionId, tree, localStorage>>]_vars

\* C16 witness: a file with no session.tree was rejected while a session with
\* nodes was active.
C16_Witness ==
    /\ lastOp.op = "importSession"
    /\ lastOp.arg = "noTree"
    /\ lastOp.threw
    /\ Len(tree.nodes) > 0
    /\ MapHas(sessions, currentSessionId)

\* C17: exportSession(id) with an id that is no key of the session map throws
\* and leaves the session map, the active session id, the active tree and
\* localStorage as they were.
C17_ExportUnknownThrows ==
    [][(lastOp'.op = "exportSession" /\ ~MapHas(sessions, lastOp'.arg)) =>
          /\ lastOp'.threw
          /\ exported' = exported
          /\ UNCHANGED <<sessions, currentSessionId, tree, localStorage>>]_vars

\* C17 witness: an export of an id that is no key threw, beside a session map
\* that has keys.
C17_Witness ==
    /\ lastOp.op = "exportSession"
    /\ lastOp.threw
    /\ ~MapHas(sessions, lastOp.arg)
    /\ Len(sessions) > 0

\* What an operation leaves in memory, and whether it threw.
InMemory(w) == <<w.tree, w.currentSessionId, w.sessions, w.nextSession, w.threw>>

\* C18: each of addNode, updateNode, deleteNode, clearAll, saveCurrentSession,
\* loadSession, createNewSession, deleteSession, renameSession and
\* importSession, run where localStorage.setItem throws, does not throw and
\* leaves in memory what it leaves where the write succeeds.
C18_WriteFailureIsSilent ==
    (phase = "run" /\ Rendered) =>
        LET ok == [World EXCEPT !.fails = FALSE]
            full == [World EXCEPT !.fails = TRUE]
            Same(a, b) == ~a.threw /\ InMemory(a) = InMemory(b)
            newNode(parentId) ==
                Node(NodeId(nextNode + 1), generateNodeName(World, parentId),
                     parentId, [x |-> 100, y |-> 100])
        IN /\ \A parentId \in SpawnParents :
                 Same(addNode(full, newNode(parentId), clock),
                      addNode(ok, newNode(parentId), clock))
           /\ \A id \in MapKeys(tree.nodes) :
                 /\ Same(updateNode(full, id, [answer |-> "edited"], clock),
                         updateNode(ok, id, [answer |-> "edited"], clock))
                 /\ Same(deleteNode(full, id, clock), deleteNode(ok, id, clock))
           /\ Same(clearAll(full, clock), clearAll(ok, clock))
           /\ Same(saveCurrentSession(full, "Mine", clock),
                   saveCurrentSession(ok, "Mine", clock))
           /\ Same(createNewSession(full, clock), createNewSession(ok, clock))
           /\ Same(importSession(full, ForeignDocument, clock),
                   importSession(ok, ForeignDocument, clock))
           /\ \A id \in MapKeys(sessions) :
                 /\ Same(deleteSession(full, id, clock), deleteSession(ok, id, clock))
                 /\ Same(renameSession(full, id, "Renamed", clock),
                         renameSession(ok, id, "Renamed", clock))
                 /\ Same(loadSession(full, id, clock), loadSession(ok, id, clock))

\* C19: loadSession(id) with a key id makes id active and the active tree a
\* copy of the tree stored for id, the non-empty tree of the session that was
\* active being stored in that session's entry; with an id that is no key it
\* leaves the active tree, the active session id and the session map alone.
C19_LoadSession ==
    [][(lastOp'.op = "loadSession" /\ ~lastOp'.threw) =>
          IF MapHas(sessions, lastOp'.arg)
          THEN /\ currentSessionId' = lastOp'.arg
               /\ tree' = SessionTree(MapGet(sessions, lastOp'.arg))
               /\ MapHas(sessions', lastOp'.arg)
               /\ tree' = SessionTree(MapGet(sessions', lastOp'.arg))
               /\ (currentSessionId # Null /\ Len(tree.nodes) > 0) =>
                     /\ MapHas(sessions', currentSessionId)
                     /\ SessionTree(MapGet(sessions', currentSessionId)) = tree
          ELSE UNCHANGED <<tree, currentSessionId, sessions>>]_vars

\* C19 witness: a session with nodes was loaded while another session with
\* other nodes was active, and that one is stored with its nodes.
C19_Witness ==
    /\ lastOp.op = "loadSession"
    /\ currentSessionId = lastOp.arg
    /\ Len(tree.nodes) > 0
    /\ \E i \in DOMAIN sessions :
          /\ sessions[i].k # currentSessionId
          /\ sessions[i].v.updatedAt = clock - 1
          /\ SessionNodeIds(sessions[i].v) # {}
          /\ SessionNodeIds(sessions[i].v) \cap MapKeys(tree.nodes) = {}

\* C20: createNewSession makes active an id that was no session before, which
\* is a key of the session map with an empty tree; the active tree is empty;
\* and the session that was active with a non-empty tree is a key of the map
\* whose entry holds that tree.
C20_CreateNewSession ==
    [][lastOp'.op = "createNewSession" =>
          /\ currentSessionId' # Null
          /\ currentSessionId' \notin MapKeys(sessions) \cup {currentSessionId}
          /\ MapHas(sessions', currentSessionId')
          /\ SessionTree(MapGet(sessions', currentSessionId')) = initialTree
          /\ tree' = initialTree
          /\ (currentSessionId # Null /\ Len(tree.nodes) > 0) =>
                /\ MapHas(sessions', currentSessionId)
                /\ SessionTree(MapGet(sessions', currentSessionId)) = tree]_vars

\* C20 witness: a session was created while a session with nodes was active.
C20_Witness ==
    /\ lastOp.op = "createNewSession"
    /\ tree = initialTree
    /\ MapHas(sessions, currentSessionId)
    /\ \E i \in DOMAIN sessions :
          /\ sessions[i].k # currentSessionId
          /\ SessionNodeIds(sessions[i].v) # {}
          /\ localStorage[SESSIONS_KEY][i].v.tree.nodes.kind = "Array"

\* C21: saveCurrentSession keeps the active session id, or on a store with
\* none makes a new id active; the entry under that id holds the tree's nodes
\* and rootIds, the createdAt of the entry it replaces and an updatedAt not
\* earlier than that entry's; every other entry is as it was.
C21_SaveCurrentSession ==
    [][lastOp'.op = "saveCurrentSession" =>
          /\ currentSessionId # Null /\ currentSessionId' = currentSessionId
          /\ MapHas(sessions', currentSessionId')
          /\ tree' = tree
          /\ SessionTree(MapGet(sessions', currentSessionId')) = tree
          /\ MapHas(sessions, currentSessionId) =>
                /\ MapGet(sessions', currentSessionId').createdAt
                       = MapGet(sessions, currentSessionId).createdAt
                /\ MapGet(sessions', currentSessionId').updatedAt
                       >= MapGet(sessions, currentSessionId).updatedAt
          /\ MapKeys(sessions') = MapKeys(sessions) \cup {currentSessionId'}
          /\ \A k \in MapKeys(sessions) \ {currentSessionId'} :
                MapGet(sessions', k) = MapGet(sessions, k)
          /\ LET none == [World EXCEPT !.currentSessionId = Null]
                 made == saveCurrentSession(none, "Mine", clock)
             IN /\ made.currentSessionId # Null
                /\ made.currentSessionId \notin MapKeys(sessions) \cup {currentSessionId}
                /\ MapKeys(made.sessions)
                       = MapKeys(sessions) \cup {made.currentSessionId}
                /\ SessionTree(MapGet(made.sessions, made.currentSessionId)) = tree
                /\ \A k \in MapKeys(sessions) :
                      MapGet(made.sessions, k) = MapGet(sessions, k)]_vars

\* C21 witness: the active session, stored earlier, was saved again with its
\* nodes beside another session.
C21_Witness ==
    /\ lastOp.op = "saveCurrentSession"
    /\ Len(tree.nodes) > 0
    /\ Len(sessions) > 1
    /\ MapHas(sessions, currentSessionId)
    /\ MapGet(sessions, currentSessionId).createdAt
           < MapGet(sessions, currentSessionId).updatedAt

\* C22: deleteSession(id) with an id that is not the active session removes
\* the entry of id, and no other, from the session map and from the persisted
\* index, and leaves the active session id and the active tree alone; with an
\* id that is no key it removes no entry of either.
C22_DeleteOtherSession ==
    [][(lastOp'.op = "deleteSession" /\ lastOp'.arg # currentSessionId) =>
          /\ sessions' = MapDelete(sessions, lastOp'.arg)
          /\ IndexKeys(localStorage') = IndexKeys(localStorage) \ {lastOp'.arg}
          /\ currentSessionId' = currentSessionId
          /\ tree' = tree]_vars

\* C23: renameSession(id, name) with a key id sets the name and the updatedAt
\* of that entry and nothing else of the session map, the active session id
\* or the active tree; with an id that is no key it changes nothing.
C23_RenameSession ==
    [][lastOp'.op = "renameSession" =>
          /\ currentSessionId' = currentSessionId
          /\ tree' = tree
          /\ IF MapHas(sessions, lastOp'.arg)
             THEN /\ [i \in DOMAIN sessions' |-> sessions'[i].k]
                         = [i \in DOMAIN sessions |-> sessions[i].k]
                  /\ \A k \in MapKeys(sessions) \ {lastOp'.arg} :
                        MapGet(sessions', k) = MapGet(sessions, k)
                  /\ MapGet(sessions', lastOp'.arg)
                         = [MapGet(sessions, lastOp'.arg) EXCEPT
                               !.name = "Renamed", !.updatedAt = clock]
             ELSE sessions' = sessions /\ localStorage' = localStorage]_vars

\* C23 witness: a session that is not the active one and has nodes was renamed.
C23_Witness ==
    /\ lastOp.op = "renameSession"
    /\ lastOp.arg # currentSessionId
    /\ MapHas(sessions, lastOp.arg)
    /\ MapGet(sessions, lastOp.arg).name = "Renamed"
    /\ SessionNodeIds(MapGet(sessions, lastOp.arg)) # {}
    /\ MapGet(sessions, lastOp.arg).createdAt < clock - 1

\* C24: after every Tree Store mutator currentSessionId is not null and the
\* entry stored under it holds the active tree: its node ids in order, its
\* nodes and its rootIds.
C24_ActiveTreeMirrored ==
    lastOp.op \in TreeMutators =>
        /\ currentSessionId # Null
        /\ MapHas(sessions, currentSessionId)
        /\ SessionTree(MapGet(sessions, currentSessionId)) = tree

\* C24 witness: a node was deleted from a tree that keeps a node, and the
\* entry of the active session has the nodes that are left.
C24_Witness ==
    /\ lastOp.op = "deleteNode"
    /\ Len(tree.nodes) > 0
    /\ MapHas(sessions, currentSessionId)
    /\ SessionNodeIds(MapGet(sessions, currentSessionId)) = MapKeys(tree.nodes)
    /\ Len(sessions) > 1

\* C25: for every id of the tree getNodeChain(id) is the path from a root to
\* the node: its first node has no parentId, every later node has the id of
\* the node before it as parentId, and its last node is the node of id; for
\* an id that is not in the tree it is empty.
C25_NodeChainIsRootPath ==
    phase = "run" =>
        /\ \A id \in MapKeys(tree.nodes) :
              LET chain == getNodeChain(tree, id)
              IN /\ Len(chain) > 0
                 /\ chain[1].parentId = Null
                 /\ \A i \in 2..Len(chain) : chain[i].parentId = chain[i - 1].id
                 /\ chain[Len(chain)] = MapGet(tree.nodes, id)
        /\ \A id \in {NodeId(i) : i \in 0..MaxNodes} \ MapKeys(tree.nodes) :
              getNodeChain(tree, id) = <<>>

\* The question/answer pair of a node, as two context parts.
QuestionPart(node) == ContextPart("Q: ", <<node.question>>)

AnswerPart(node) == ContextPart("A: ", node.answer)

C27_SelectedSection ==
    \A id \in MapKeys(tree.nodes), k \in 0..MaxSection :
        LET parent == MapGet(tree.nodes, id)
            chain == getNodeChain(tree, id)
            result == buildContext(<<parent>>, chain, k)
            last == chain[Len(chain)]
        IN /\ Len(result) = 2 * Len(chain)
           /\ \A i \in DOMAIN chain : result[2 * i - 1] = QuestionPart(chain[i])
           /\ \A i \in 1..(Len(chain) - 1) : result[2 * i] = AnswerPart(chain[i])
           /\ result[2 * Len(chain)] =
                 IF k < Len(ShownSections(last))
                 THEN ContextPart("A (selected section): ",
                                  ShownSections(last)[k + 1].text)
                 ELSE AnswerPart(last)

\* C27 witness: a chain of two nodes whose last node has one section, so that
\* index 0 selects it and index 1 is out of range.
C27_Witness ==
    \E id \in MapKeys(tree.nodes) :
        LET chain == getNodeChain(tree, id)
        IN /\ Len(chain) = 2
           /\ Len(ShownSections(chain[2])) = 1
           /\ buildContext(<<chain[2]>>, chain, 0)[4].prefix = "A (selected section): "
           /\ buildContext(<<chain[2]>>, chain, 1)[4] = AnswerPart(chain[2])

\* C28: the context a node was asked with, spawned from a node P, has the
\* question and the answer of every node on the path from the root to P.
C28_FullContextOfChain ==
    (lastOp.op = "addNode" /\ MapHas(tree.nodes, lastOp.arg)) =>
        LET node == MapGet(tree.nodes, lastOp.arg)
            chain == getNodeChain(tree, node.parentId)
        IN \A i \in DOMAIN chain :
              /\ node.context # <<>>
              /\ \E j \in DOMAIN node.context[1] :
                    node.context[1][j] = QuestionPart(chain[i])
              /\ \E j \in DOMAIN node.context[1] :
                    node.context[1][j] = AnswerPart(chain[i])

\* The number of parentId hops from the node of id up to a root.
Hops(t, id) == Len(getNodeChain(t, id)) - 1

\* C29: calculateAutoLayout gives a position to the node ids of the tree and
\* to no other id, and the node that is the i-th (from 0) of the nodes d hops
\* below a root, in insertion order, is at x = 300 + i*(400+500) + d*(400+100)
\* and y = 100 + d*350.
C29_LayoutFormula ==
    LET positions == calculateAutoLayout(tree)
        ids == [n \in DOMAIN tree.nodes |-> tree.nodes[n].k]
    IN /\ MapKeys(positions) = MapKeys(tree.nodes)
       /\ \A n \in DOMAIN ids :
             LET d == Hops(tree, ids[n])
                 i == Cardinality({m \in 1..(n - 1) : Hops(tree, ids[m]) = d})
             IN MapGet(positions, ids[n])
                    = [x |-> 300 + i * (400 + 500) + d * (400 + 100),
                       y |-> 100 + d * 350]

\* C30: after addNode of a new node, calculateAutoLayout gives every node that
\* was in the tree the position it gave it before, and a position to the new
\* node.
C30_LayoutStableUnderAdd ==
    [][lastOp'.op = "addNode" =>
          /\ MapKeys(calculateAutoLayout(tree'))
                 = MapKeys(tree.nodes) \cup {lastOp'.arg}
          /\ \A k \in MapKeys(tree.nodes) :
                MapGet(calculateAutoLayout(tree'), k)
                    = MapGet(calculateAutoLayout(tree), k)]_vars

\* C30 witness: the node added last is placed to the right of an earlier node
\* of its depth, in a tree of three nodes.
C30_Witness ==
    /\ lastOp.op = "addNode"
    /\ Len(tree.nodes) = 3
    /\ MapHas(calculateAutoLayout(tree), lastOp.arg)
    /\ MapGet(calculateAutoLayout(tree), lastOp.arg).x
           > startX + calculateDepth(tree, lastOp.arg) * (NODE_WIDTH + 100)

\* C31: deleteNode(id) and updateNode(id, fields) with an id that is not in
\* the tree leave the node mapping and rootIds as they were and do not throw.
C31_UnknownNodeIsNoOp ==
    [][(/\ lastOp'.op \in {"deleteNode", "updateNode"}
        /\ ~MapHas(tree.nodes, lastOp'.arg)) =>
          /\ tree' = tree
          /\ ~lastOp'.threw]_vars

\* C31 witness: updateNode was called with an id that is not in a tree that
\* has nodes.
C31_Witness ==
    /\ lastOp.op = "updateNode"
    /\ ~MapHas(tree.nodes, lastOp.arg)
    /\ Len(tree.nodes) > 0
    /\ \A i \in DOMAIN tree.nodes : tree.nodes[i].v.id # "other"

\* C32: buildContext segments an answer only when a section index is
\* supplied, only for the last chain node, and never for a node whose
\* answerSections field is present.
C32_SegmentationOnlyWhenAbsent ==
    \A id \in MapKeys(tree.nodes) :
       \A selectedSectionIndex \in {NoSection} \cup (0..MaxSection) :
          Rendered =>
            LET chain == getNodeChain(tree, id)
                calls == SegmentationCalls(<<MapGet(tree.nodes, id)>>, chain,
                                           selectedSectionIndex)
            IN /\ selectedSectionIndex = NoSection => calls = <<>>
               /\ \A i \in DOMAIN calls :
                     /\ calls[i] = chain[Len(chain)]
                     /\ "answerSections" \notin DOMAIN calls[i]

\* C33: the node inserted when an in-flight spawn completes has a parentId
\* that is null or names a node of the active tree at that moment, and the
\* active session is then the session the spawn was issued from.
C33_InflightSpawnIsSafe ==
    [][(inflight # NoRequest /\ lastOp'.op = "addNode") =>
          /\ \/ inflight.parentNodeId = Null
             \/ MapHas(tree.nodes, inflight.parentNodeId)
          /\ currentSessionId = inflight.sessionId
          /\ MapGet(tree'.nodes, lastOp'.arg).parentId = inflight.parentNodeId]_vars

\* The start-up loads have migrated the legacy blob and nothing was done
\* since: the migrated session is in the session map or in the index.
LegacyMigrated ==
    /\ ops = 0
    /\ lastOp.op = "loadFromStorage"
    /\ \/ \E i \in DOMAIN sessions : sessions[i].v.name = "Migrated Session"
       \/ /\ HasItem(localStorage, SESSIONS_KEY)
          /\ \E i \in DOMAIN localStorage[SESSIONS_KEY] :
                localStorage[SESSIONS_KEY][i].v.name = "Migrated Session"

\* The persisted store l holds the nodes of the legacy blob: in the legacy
\* record, or in a session of the index.
LegacyPersisted(l) ==
    \/ /\ HasItem(l, STORAGE_KEY)
       /\ MapKeys(LegacyBlob.nodes) \subseteq MapKeys(l[STORAGE_KEY].nodes)
    \/ /\ HasItem(l, SESSIONS_KEY)
       /\ \E i \in DOMAIN l[SESSIONS_KEY] :
             MapKeys(LegacyBlob.nodes) \subseteq PersistedNodeIds(l[SESSIONS_KEY][i].v)

\* C34: once loadFromStorage has migrated a legacy blob, and before any tree
\* mutation, the persisted store holds the legacy nodes, in the legacy record
\* or in a session of the index, also after the second start-up load.
C34_MigrationKeepsLegacyNodes ==
    LegacyMigrated => LegacyPersisted(localStorage)

\* The ids of the nodes of t whose parentId is p, in creation order (the
\* order of the node mapping).
IdsWithParent(t, p) ==
    LET kept == SelectSeq(t.nodes, LAMBDA e : e.v.parentId = p)
    IN [i \in DOMAIN kept |-> kept[i].k]

\* C35: in every tree reached by addNode of nodes with fresh ids and by
\* deleteNode, rootIds is the ids of the nodes whose parentId is null, each
\* once and in creation order.
C35_RootIdsAreTheRoots ==
    tree.rootIds = IdsWithParent(tree, Null)

\* C35 witness: the first of two roots was deleted; the tree keeps the
\* second root and a child of it.
C35_Witness ==
    /\ lastOp.op = "deleteNode"
    /\ lastOp.arg = NodeId(1)
    /\ tree.rootIds = <<NodeId(2)>>
    /\ MapKeys(tree.nodes) = {NodeId(2), NodeId(3)}
    /\ MapGet(tree.nodes, NodeId(3)).parentId = NodeId(2)

\* C36: in every tree reached by addNode of nodes with fresh ids and by
\* deleteNode, the childrenIds of every node is the ids of the present nodes
\* whose parentId is that node, each once and in creation order.
C36_ChildrenIdsAreTheChildren ==
    \A i \in DOMAIN tree.nodes :
       tree.nodes[i].v.childrenIds = IdsWithParent(tree, tree.nodes[i].k)

\* C36 witness: a node was deleted from a tree of three nodes; the first
\* node keeps one child.
C36_Witness ==
    /\ lastOp.op = "deleteNode"
    /\ Len(tree.nodes) = 2
    /\ MapHas(tree.nodes, NodeId(1))
    /\ Len(MapGet(tree.nodes, NodeId(1)).childrenIds) = 1

\* C37: a tree mutation on the active session leaves the in-memory entry of
\* every other session as it was: name, timestamps, nodes and rootIds.
C37_OtherSessionsUntouched ==
    [][lastOp'.op \in TreeMutators =>
          \A k \in MapKeys(sessions) \ {currentSessionId} :
             /\ MapHas(sessions', k)
             /\ MapGet(sessions', k) = MapGet(sessions, k)]_vars

\* C37 witness: the tree was mutated while the session map held, beside the
\* active session, a session created after it: the active session was made
\* active again by loadSession.
C37_Witness ==
    /\ lastOp.op \in TreeMutators
    /\ Len(tree.nodes) > 0
    /\ MapHas(sessions, currentSessionId)
    /\ \E k \in MapKeys(sessions) \ {currentSessionId} :
          /\ MapGet(sessions, k).createdAt
                 > MapGet(sessions, currentSessionId).createdAt
          /\ MapGet(sessions, k).name # "Shared"
          /\ MapGet(sessions, k).updatedAt < MapGet(sessions, currentSessionId).updatedAt

\* C38: a loadFromStorage that follows a loadFromStorage with no operation
\* in between, as at start-up, changes neither the active tree, nor the
\* active session id, nor the session map, nor the persisted store.
C38_LoadIsIdempotent ==
    [][(lastOp.op = "loadFromStorage" /\ lastOp'.op = "loadFromStorage") =>
          /\ tree' = tree
          /\ currentSessionId' = currentSessionId
          /\ sessions' = sessions
          /\ localStorage' = localStorage]_vars

\* C39: calculateAutoLayout gives distinct nodes distinct positions, and two
\* nodes of the same y are at least 900 apart in x, more than the node width.
C39_NoOverlapInRow ==
    LET positions == calculateAutoLayout(tree)
    IN /\ 900 > NODE_WIDTH
       /\ \A a, b \in MapKeys(tree.nodes) :
             a # b =>
                LET pa == MapGet(positions, a)
                    pb == MapGet(positions, b)
                IN /\ pa # pb
                   /\ pa.y = pb.y => (pa.x - pb.x >= 900 \/ pb.x - pa.x >= 900)

\* C39 witness: a tree of three nodes, two of them on one row of the layout
\* and the third on another.
C39_Witness ==
    LET positions == calculateAutoLayout(tree)
    IN /\ Len(tree.nodes) = 3
       /\ \E a, b, c \in MapKeys(tree.nodes) :
             /\ a # b
             /\ MapGet(positions, a).y = MapGet(positions, b).y
             /\ MapGet(positions, c).y # MapGet(positions, a).y

\* C40: applyAutoLayout sets the position of every node to the one
\* calculateAutoLayout gives for the tree and changes nothing else of the
\* tree; it dispatches 'autoLayoutApplied' once, when the positions are in
\* the active tree and in the persisted entry of the active session, and no
\* other operation dispatches it.
C40_ApplyAutoLayout ==
    [][/\ lastOp'.op = "applyAutoLayout" =>
            /\ tree'.rootIds = tree.rootIds
            /\ DOMAIN tree'.nodes = DOMAIN tree.nodes
            /\ \A i \in DOMAIN tree.nodes :
                  /\ tree'.nodes[i].k = tree.nodes[i].k
                  /\ tree'.nodes[i].v =
                        [tree.nodes[i].v EXCEPT
                           !.position = MapGet(calculateAutoLayout(tree),
                                               tree.nodes[i].k)]
            /\ Len(lastOp'.events) = 1
            /\ lastOp'.events[1].type = "autoLayoutApplied"
            /\ lastOp'.events[1].tree = tree'
            /\ LET l == lastOp'.events[1].ls
               IN /\ HasItem(l, SESSIONS_KEY)
                  /\ \E j \in DOMAIN l[SESSIONS_KEY] :
                        /\ l[SESSIONS_KEY][j].k = currentSessionId
                        /\ l[SESSIONS_KEY][j].v.tree.nodes
                               = [kind |-> "Array", items |-> tree'.nodes]
       /\ lastOp'.op # "applyAutoLayout" => lastOp'.events = <<>>]_vars

\* C40 witness: the layout was applied to a tree with a node that was not at
\* its layout position, and the canvas was notified.
C40_Witness ==
    /\ lastOp.op = "applyAutoLayout"
    /\ lastOp.events # <<>>
    /\ Len(tree.nodes) > 1
    /\ \E i \in DOMAIN tree.nodes :
          /\ tree.nodes[i].v.parentId # Null
          /\ tree.nodes[i].v.position.x > 150

====
